---- MODULE Spec2Model ----
(***************************************************************************)
(* A model of the three pipeline scripts of session_1_zoom_in:             *)
(*   get_mlb_data.py        mlb_simple_flow and its tasks,                 *)
(*   snowflake_helper.py    setup_tables / insert_game_scores /            *)
(*                          insert_game_locations,                         *)
(*   get_elevation_data.py  main_elevation and its tasks.                  *)
(* One behaviour is one run of one script (SpecMlb, SpecElevation), or one *)
(* application of a fetch task to one raw payload (SpecTransform).         *)
(***************************************************************************)
EXTENDS Integers, Sequences, FiniteSets, TLC

----------------------------------------------------------------------------
(* Bounds of the model                                                     *)

MaxTeams == 2
MaxGames == 2
NumGameIds == 2
MaxLocations == 2

----------------------------------------------------------------------------
(* Python values.  Every value is a record of one shape, so that values of *)
(* different Python types can be compared: t is the type, n the number     *)
(* (floats in tenths), s the characters of a string.                       *)

PyInt(n) == [t |-> "int", n |-> n, s |-> <<>>]
PyFloat(n) == [t |-> "float", n |-> n, s |-> <<>>]
PyStr(s) == [t |-> "str", n |-> 0, s |-> s]
Raised == [t |-> "raise", n |-> 0, s |-> <<>>]

Unknown == PyStr(<<"U", "n", "k", "n", "o", "w", "n">>)

DigitChars == <<"0", "1", "2", "3", "4", "5", "6", "7", "8", "9">>

IsDigit(c) == \E i \in 1..10 : DigitChars[i] = c

DigitVal(c) == (CHOOSE i \in 1..10 : DigitChars[i] = c) - 1

RECURSIVE DigitsOf(_)
DigitsOf(n) == IF n < 10 THEN <<DigitChars[n + 1]>>
               ELSE Append(DigitsOf(n \div 10), DigitChars[(n % 10) + 1])

\* str(n) of a non-negative int
Str(n) == DigitsOf(n)

RECURSIVE ParseNat(_)
ParseNat(s) == IF Len(s) = 0 THEN 0
               ELSE 10 * ParseNat(SubSeq(s, 1, Len(s) - 1)) + DigitVal(s[Len(s)])

AllDigits(s) == Len(s) > 0 /\ \A i \in 1..Len(s) : IsDigit(s[i])

DotAt(s) == {i \in 1..Len(s) : s[i] = "."}

\* int(x): an int is kept, a float is truncated, a string of digits is
\* parsed, any other string raises ValueError
IntOf(x) ==
    CASE x.t = "int" -> x
      [] x.t = "float" -> PyInt(x.n \div 10)
      [] x.t = "str" -> IF AllDigits(x.s) THEN PyInt(ParseNat(x.s)) ELSE Raised
      [] OTHER -> Raised

\* float(x): an int is widened, a float is kept, a string "d+" or "d+.d"
\* is parsed, any other string raises ValueError
FloatOf(x) ==
    CASE x.t = "int" -> PyFloat(10 * x.n)
      [] x.t = "float" -> x
      [] x.t = "str" ->
            IF AllDigits(x.s) THEN PyFloat(10 * ParseNat(x.s))
            ELSE IF /\ Len(x.s) >= 3
                    /\ DotAt(x.s) = {Len(x.s) - 1}
                    /\ AllDigits(SubSeq(x.s, 1, Len(x.s) - 2))
                    /\ IsDigit(x.s[Len(x.s)])
                 THEN PyFloat(10 * ParseNat(SubSeq(x.s, 1, Len(x.s) - 2))
                              + DigitVal(x.s[Len(x.s)]))
                 ELSE Raised
      [] OTHER -> Raised

\* truth value of a scalar: 0, 0.0 and "" are false
Truthy(x) ==
    CASE x.t = "str" -> Len(x.s) > 0
      [] x.t \in {"int", "float"} -> x.n # 0
      [] OTHER -> FALSE

Abs(n) == IF n < 0 THEN -n ELSE n

\* dict.get(k, default); a dict is a function on its keys, {} is <<>>
Get(d, k, default) == IF k \in DOMAIN d THEN d[k] ELSE default

EmptyDict == <<>>

----------------------------------------------------------------------------
(* The record construction of the two fetch tasks (get_mlb_data.py)        *)

PyNone == [t |-> "none", n |-> 0, s |-> <<>>]

MinOf(S) == CHOOSE i \in S : \A j \in S : i <= j

\* next((item.get("value", "Unknown") for item in info
\*       if item.get("label") == "T"), "Unknown")
TimeValue(info) ==
    LET idx == {i \in 1..Len(info) : Get(info[i], "label", PyNone) = PyStr(<<"T">>)}
    IN IF idx = {} THEN Unknown ELSE Get(info[MinOf(idx)], "value", Unknown)

ScoreColumns == {"game_id", "home_team_id", "home_team", "away_team_id",
                 "away_team", "home_score", "away_score",
                 "score_differential", "game_time"}

LocationColumns == {"game_id", "venue_id", "venue_name", "venue_city",
                    "venue_state", "venue_postal_code", "venue_country",
                    "venue_latitude", "venue_longitude", "venue_elevation"}

\* the path boxscore.get(a, {}).get(b, {}).get(c, {}).get(d, default)
Get4(d, a, b, c, e, default) ==
    Get(Get(Get(Get(d, a, EmptyDict), b, EmptyDict), c, EmptyDict), e, default)

Get3(d, a, b, c, default) ==
    Get(Get(Get(d, a, EmptyDict), b, EmptyDict), c, default)

\* an empty string as the default
EmptyText == PyStr(<<>>)

\* the default of a missing string field
DefaultText == Unknown

\* the body of fetch_game_score after the emptiness test: the record, or
\* Raised when a conversion raises
ScoreData(game_id, boxscore) ==
    LET home_score == Get4(boxscore, "home", "teamStats", "batting", "runs", PyInt(0))
        away_score == Get4(boxscore, "away", "teamStats", "batting", "runs", PyInt(0))
        home_team == Get3(boxscore, "teamInfo", "home", "teamName", DefaultText)
        away_team == Get3(boxscore, "teamInfo", "away", "teamName", DefaultText)
        home_team_id == Get3(boxscore, "teamInfo", "home", "id", PyInt(0))
        away_team_id == Get3(boxscore, "teamInfo", "away", "id", PyInt(0))
        time_value == TimeValue(Get(boxscore, "gameBoxInfo", <<>>))
        conv == {IntOf(PyStr(game_id)), IntOf(home_team_id), IntOf(away_team_id),
                 IntOf(home_score), IntOf(away_score)}
    IN IF Raised \in conv THEN Raised
       ELSE [game_id |-> IntOf(PyStr(game_id)),
             home_team_id |-> IntOf(home_team_id),
             home_team |-> home_team,
             away_team_id |-> IntOf(away_team_id),
             away_team |-> away_team,
             home_score |-> IntOf(home_score),
             away_score |-> IntOf(away_score),
             score_differential |->
                 PyInt(Abs(IntOf(home_score).n - IntOf(away_score).n)),
             game_time |-> time_value]

\* int(venue.get("id", 0)) if venue.get("id") else 0
VenueId(venue) ==
    IF Truthy(Get(venue, "id", PyNone)) THEN IntOf(Get(venue, "id", PyInt(0)))
    ELSE PyInt(0)

\* the body of fetch_game_location after the emptiness test
LocationData(game_id, game) ==
    LET game_data == Get(game, "gameData", EmptyDict)
        venue == Get(game_data, "venue", EmptyDict)
        location == Get(venue, "location", EmptyDict)
        default_coordinates == Get(location, "defaultCoordinates", EmptyDict)
        lat == FloatOf(Get(default_coordinates, "latitude", PyFloat(0)))
        lon == FloatOf(Get(default_coordinates, "longitude", PyFloat(0)))
        elev == FloatOf(Get(location, "elevation", PyFloat(0)))
        conv == {IntOf(PyStr(game_id)), VenueId(venue), lat, lon, elev}
    IN IF Raised \in conv THEN Raised
       ELSE [game_id |-> IntOf(PyStr(game_id)),
             venue_id |-> VenueId(venue),
             venue_name |-> Get(venue, "name", DefaultText),
             venue_city |-> Get(location, "city", DefaultText),
             venue_state |-> Get(location, "state", DefaultText),
             venue_postal_code |-> Get(location, "postalCode", DefaultText),
             venue_country |-> Get(location, "country", DefaultText),
             venue_latitude |-> lat,
             venue_longitude |-> lon,
             venue_elevation |-> elev]

\* "if not boxscore" / "if not game" / "if score_data": a dict is false
\* exactly when it has no key
IsEmptyDict(d) == DOMAIN d = {}

\* fetch_game_score on the response boxscore: {} when there is no data
FetchGameScoreResult(game_id, boxscore) ==
    IF IsEmptyDict(boxscore) THEN EmptyDict ELSE ScoreData(game_id, boxscore)

\* fetch_game_location on the response game
FetchGameLocationResult(game_id, game) ==
    IF IsEmptyDict(game) THEN EmptyDict ELSE LocationData(game_id, game)

----------------------------------------------------------------------------
(* Raw payloads.  A payload is built from a selection that says, field by  *)
(* field, whether the field is there and which raw value it carries.       *)

Chars3 == <<"3", ":", "0", "5">>
NameMets == PyStr(<<"M", "e", "t", "s">>)
NameCubs == PyStr(<<"C", "u", "b", "s">>)
TextA == PyStr(<<"A">>)

\* raw values of an integer field: an int, a string of digits, a string
\* that is no number
RawNums == <<PyInt(3), PyStr(<<"1", "2">>), PyStr(<<"x">>)>>

\* raw values of venue.id
RawIds == <<PyInt(0), PyInt(15), PyStr(<<"2", "2">>), PyStr(<<"x">>)>>

\* raw values of a float field
RawFloats == <<PyInt(5), PyFloat(105), PyStr(<<"1", "0", ".", "5">>),
               PyStr(<<"h", "i", "g", "h">>)>>

RawLats == <<PyFloat(407), PyStr(<<"3", "4", ".", "0">>)>>
RawLon == PyFloat(-740)

\* a dict with key k when present
Opt(present, k, v) == IF present THEN k :> v ELSE EmptyDict

RunsSel == {[d |-> d, v |-> 1] : d \in 0..3} \cup {[d |-> 4, v |-> v] : v \in 1..Len(RawNums)}

RunsPart(side, r) ==
    CASE r.d = 0 -> EmptyDict
      [] r.d = 1 -> side :> EmptyDict
      [] r.d = 2 -> side :> ("teamStats" :> EmptyDict)
      [] r.d = 3 -> side :> ("teamStats" :> ("batting" :> EmptyDict))
      [] OTHER -> side :> ("teamStats" :> ("batting" :> ("runs" :> RawNums[r.v])))

NoSide == [p |-> 0, name |-> 0, id |-> 0]
SideSel == {NoSide} \cup [p : {1}, name : 0..1, id : 0..Len(RawNums)]

SidePart(side, x, name) ==
    Opt(x.p = 1, side,
        Opt(x.name = 1, "teamName", name) @@ Opt(x.id > 0, "id", RawNums[IF x.id > 0 THEN x.id ELSE 1]))

TeamInfoSel == {[p |-> 0, home |-> NoSide, away |-> NoSide]}
               \cup [p : {1}, home : SideSel, away : SideSel]

\* gameBoxInfo: absent, no item, the T item, a T item without value, the
\* T item after another one, an item without label
BoxInfos == <<
    <<>>,
    <<>>,
    <<("label" :> PyStr(<<"T">>)) @@ ("value" :> PyStr(Chars3))>>,
    <<("label" :> PyStr(<<"T">>))>>,
    <<("label" :> TextA) @@ ("value" :> TextA),
      ("label" :> PyStr(<<"T">>)) @@ ("value" :> PyStr(Chars3))>>,
    <<("value" :> TextA)>> >>

ScoreSels == [hr : RunsSel, ar : RunsSel, ti : TeamInfoSel, box : 1..Len(BoxInfos)]

BuildBoxscore(sel) ==
    RunsPart("home", sel.hr) @@ RunsPart("away", sel.ar)
    @@ Opt(sel.ti.p = 1, "teamInfo",
           SidePart("home", sel.ti.home, NameMets) @@ SidePart("away", sel.ti.away, NameCubs))
    @@ Opt(sel.box > 1, "gameBoxInfo", BoxInfos[sel.box])

NoCoords == [p |-> 0, lat |-> 0, lon |-> 0]
CoordSel == {NoCoords} \cup [p : {1}, lat : 0..Len(RawLats), lon : 0..1]

NoLoc == [p |-> 0, city |-> 0, state |-> 0, postal |-> 0, country |-> 0,
          elev |-> 0, dc |-> NoCoords]
LocSel == {NoLoc} \cup [p : {1}, city : 0..1, state : 0..1, postal : 0..1,
                        country : 0..1, elev : 0..Len(RawFloats), dc : CoordSel]

NoVenue == [id |-> 0, name |-> 0, loc |-> NoLoc]
VenueSel == [id : 0..Len(RawIds), name : 0..1, loc : LocSel]

\* gd: 0 an empty response, 1 a response without gameData, 2 gameData
\* without venue, 3 gameData with venue
LocationSels == {[gd |-> g, venue |-> NoVenue] : g \in 0..2}
                \cup [gd : {3}, venue : VenueSel]

CoordPart(c) ==
    Opt(c.p = 1, "defaultCoordinates",
        Opt(c.lat > 0, "latitude", RawLats[IF c.lat > 0 THEN c.lat ELSE 1])
        @@ Opt(c.lon = 1, "longitude", RawLon))

LocPart(l) ==
    Opt(l.p = 1, "location",
        Opt(l.city = 1, "city", TextA) @@ Opt(l.state = 1, "state", TextA)
        @@ Opt(l.postal = 1, "postalCode", TextA)
        @@ Opt(l.country = 1, "country", TextA)
        @@ Opt(l.elev > 0, "elevation", RawFloats[IF l.elev > 0 THEN l.elev ELSE 1])
        @@ CoordPart(l.dc))

VenuePart(v) ==
    Opt(v.id > 0, "id", RawIds[IF v.id > 0 THEN v.id ELSE 1])
    @@ Opt(v.name = 1, "name", TextA) @@ LocPart(v.loc)

BuildGame(sel) ==
    CASE sel.gd = 0 -> EmptyDict
      [] sel.gd = 1 -> "copyright" :> TextA
      [] sel.gd = 2 -> ("copyright" :> TextA) @@ ("gameData" :> EmptyDict)
      [] OTHER -> ("copyright" :> TextA) @@ ("gameData" :> ("venue" :> VenuePart(sel.venue)))

----------------------------------------------------------------------------
(* State                                                                   *)

VARIABLES
    pc,              \* the step the flow is at, "completed" or "failed"
    failedBy,        \* the task whose exception ended the flow, and why
    exists,          \* warehouse: the tables that exist
    rows,            \* warehouse: the rows of each table
    stmts,           \* the statements this run has sent to the warehouse
    connectorLoads,  \* how often SnowflakeConnector.load was called
    taskRuns,        \* per task without retries: how often its body ran
    team_ids,        \* mlb_simple_flow's argument
    scheduled,       \* the ids the schedules of the teams contained
    repeated,        \* whether the schedules listed an id more than once
    game_ids,        \* get_recent_games' result
    i,               \* position of the loop over game_ids / locations
    scores,          \* get_game_scores' list
    locations,       \* get_game_locations_flow's list
    cur,             \* the task run of a fetch task under way or just ended
    dispatches,      \* per fetch task and game id: how often it was called
    noData,          \* the <<task, id>> whose fetch returned {}
    elocations,      \* main_elevation: get_city_data's result
    elevations,      \* main_elevation: the elevations list
    lookups,         \* the requests the elevation API has answered
    tsel,            \* transform: the selection the raw payload is built of
    tid,             \* transform: the game id
    tresult          \* transform: what the fetch task returned

vars == <<pc, failedBy, exists, rows, stmts, connectorLoads, taskRuns,
          team_ids, scheduled, repeated, game_ids, i, scores, locations, cur,
          dispatches, noData, elocations, elevations, lookups, tsel, tid,
          tresult>>

warehouseVars == <<exists, rows, stmts, connectorLoads>>
mlbVars == <<team_ids, scheduled, repeated, game_ids, scores, locations, cur,
             dispatches, noData>>
elevVars == <<elocations, elevations, lookups>>
transformVars == <<tsel, tid, tresult>>

----------------------------------------------------------------------------
(* Constants of the program                                                *)

\* TEAM_IDS of the script's example run
TEAM_IDS == <<133, 134, 135, 136, 137, 138, 139, 140, 141, 121>>

\* @task(retries=5, ...) of fetch_game_score and of fetch_game_location
ScoreRetries == 5
LocationRetries == 5

\* fetch_many(..., size=100)
FetchSize == 100

Tables == {"GAME_SCORES", "GAME_LOCATIONS", "elevation_data"}
FetchTasks == {"fetch_game_score", "fetch_game_location"}
LoadTasks == {"setup_tables", "insert_game_scores", "insert_game_locations"}
ElevTasks == {"get_city_data", "get_elevation", "setup_table"}

----------------------------------------------------------------------------
(* Inputs                                                                  *)

GameIds == {8 + k : k \in 1..NumGameIds}
GameIdStrs == {Str(g) : g \in GameIds}

SeqsUpTo(S, n) == UNION {[1..k -> S] : k \in 0..n}

Range(s) == {s[k] : k \in DOMAIN s}

RECURSIVE Flatten(_)
Flatten(ss) == IF Len(ss) = 0 THEN <<>> ELSE Head(ss) \o Flatten(Tail(ss))

Perms(S) == {s \in [1..Cardinality(S) -> S] : \A a, b \in 1..Cardinality(S) : a # b => s[a] # s[b]}

NoRuns == [d |-> 0, v |-> 1]
BothSides == [p |-> 1, home |-> [p |-> 1, name |-> 1, id |-> 1],
              away |-> [p |-> 1, name |-> 1, id |-> 2]]
NoTeamInfo == [p |-> 0, home |-> NoSide, away |-> NoSide]

\* the boxscore responses of a flow run: a full one, one with nothing but
\* an empty gameBoxInfo, one whose runs are no number, and an empty one
FlowScoreSels == {
    [hr |-> [d |-> 4, v |-> 1], ar |-> [d |-> 4, v |-> 2], ti |-> BothSides, box |-> 3],
    [hr |-> NoRuns, ar |-> NoRuns, ti |-> NoTeamInfo, box |-> 2],
    [hr |-> [d |-> 4, v |-> 3], ar |-> NoRuns, ti |-> NoTeamInfo, box |-> 1],
    [hr |-> NoRuns, ar |-> NoRuns, ti |-> NoTeamInfo, box |-> 1] }

FullLoc(lat) == [p |-> 1, city |-> 1, state |-> 1, postal |-> 1, country |-> 1,
                 elev |-> 2, dc |-> [p |-> 1, lat |-> lat, lon |-> 1]]

\* the game responses of a flow run: a full one, one whose venue id is no
\* number, and an empty one
FlowLocationSels == {
    [gd |-> 3, venue |-> [id |-> 2, name |-> 1, loc |-> FullLoc(1)]],
    [gd |-> 3, venue |-> [id |-> 4, name |-> 0, loc |-> NoLoc]],
    [gd |-> 0, venue |-> NoVenue] }

NoRun == [task |-> "none", id |-> <<>>, attempts |-> 0, fails |-> 0,
          retries |-> 0, outcome |-> "none"]
NoFailure == [task |-> "none", why |-> "none"]

\* rows that earlier runs of mlb_simple_flow have left in GAME_LOCATIONS
StoredLocationRows ==
    {FetchGameLocationResult(Str(g), BuildGame(sel)) :
        g \in GameIds,
        sel \in {[gd |-> 3, venue |-> [id |-> 2, name |-> 1, loc |-> FullLoc(lat)]] :
                    lat \in 1..Len(RawLats)}}

NoRows == [tb \in Tables |-> <<>>]

InitCommon ==
    /\ failedBy = NoFailure
    /\ stmts = <<>>
    /\ connectorLoads = 0
    /\ taskRuns = [tk \in LoadTasks \cup ElevTasks |-> 0]
    /\ scheduled = {}
    /\ repeated = FALSE
    /\ game_ids = <<>>
    /\ i = 1
    /\ scores = <<>>
    /\ locations = <<>>
    /\ cur = NoRun
    /\ dispatches = [d \in FetchTasks \X GameIdStrs |-> 0]
    /\ noData = {}
    /\ elocations = <<>>
    /\ elevations = <<>>
    /\ lookups = <<>>
    /\ tresult = PyNone

InitMlb ==
    /\ InitCommon
    /\ pc = "setup_tables"
    /\ team_ids \in {SubSeq(TEAM_IDS, 1, n) : n \in 0..MaxTeams}
    /\ exists \in {{}, {"GAME_SCORES", "GAME_LOCATIONS"}}
    /\ rows = NoRows
    /\ tsel = <<>>
    /\ tid = <<>>

InitElevation ==
    /\ InitCommon
    /\ pc = "get_city_data"
    /\ team_ids = <<>>
    /\ \/ exists = {} /\ rows = NoRows
       \/ /\ exists \in {{"GAME_SCORES", "GAME_LOCATIONS"}, Tables}
          /\ \E stored \in SeqsUpTo(StoredLocationRows, MaxLocations) :
                rows = [NoRows EXCEPT !["GAME_LOCATIONS"] = stored]
    /\ tsel = <<>>
    /\ tid = <<>>

InitTransform ==
    /\ InitCommon
    /\ pc \in FetchTasks
    /\ team_ids = <<>>
    /\ exists = {}
    /\ rows = NoRows
    /\ tsel \in IF pc = "fetch_game_score" THEN ScoreSels ELSE LocationSels
    /\ tid = Str(8 + NumGameIds)


----------------------------------------------------------------------------
(* snowflake_helper.py                                                     *)

Stmt(op, table, ok, params) == [op |-> op, table |-> table, ok |-> ok, params |-> params]

\* a task's exception reaches the flow, which has no handler: the run fails
Fails(task, why) ==
    /\ pc' = "failed"
    /\ failedBy' = [task |-> task, why |-> why]

\* the exception swallowed instead of raised again
AfterLoadErrorSwallowed(next) == next

\* "except Exception as e: ... raise e": where the flow is after a load
\* task's connector or statement raised
AfterLoadError(next) == "failed"

\* the emptiness test left out
NeverSkipsBatch(batch) == FALSE

\* "if not game_scores: ... return"
SkipsBatch(batch) == batch = <<>>

\* the second CREATE TABLE left out
SetupTablesStmtsOneTable(outcome) ==
    CASE outcome = "load_fails" -> <<>>
      [] outcome = "first_fails" -> <<Stmt("create", "GAME_SCORES", FALSE, <<>>)>>
      [] OTHER -> <<Stmt("create", "GAME_SCORES", TRUE, <<>>)>>

\* the statements setup_tables sends: GAME_SCORES, then GAME_LOCATIONS
SetupTablesStmts(outcome) ==
    CASE outcome = "load_fails" -> <<>>
      [] outcome = "first_fails" -> <<Stmt("create", "GAME_SCORES", FALSE, <<>>)>>
      [] OTHER -> <<Stmt("create", "GAME_SCORES", TRUE, <<>>),
                    Stmt("create", "GAME_LOCATIONS", outcome = "ok", <<>>)>>

\* setup_tables: both CREATE TABLE IF NOT EXISTS statements, in order
SetupTables ==
    /\ pc = "setup_tables"
    /\ taskRuns' = [taskRuns EXCEPT !["setup_tables"] = @ + 1]
    /\ connectorLoads' = connectorLoads + 1
    /\ \E outcome \in {"load_fails", "first_fails", "second_fails", "ok"} :
          /\ stmts' = stmts \o SetupTablesStmts(outcome)
          /\ exists' = exists \cup {st.table : st \in {x \in Range(SetupTablesStmts(outcome)) : x.ok}}
          /\ IF outcome = "ok"
             THEN pc' = "get_recent_games" /\ failedBy' = failedBy
             ELSE /\ pc' = AfterLoadError("get_recent_games")
                  /\ failedBy' = IF pc' = "failed"
                                 THEN [task |-> "setup_tables", why |-> outcome]
                                 ELSE failedBy
    /\ UNCHANGED <<rows, i>>
    /\ UNCHANGED <<mlbVars, elevVars, transformVars>>

\* insert_game_scores / insert_game_locations: the batch, or nothing when
\* the batch is empty
InsertBatch(task, table, batch, next) ==
    /\ pc = task
    /\ taskRuns' = [taskRuns EXCEPT ![task] = @ + 1]
    /\ IF SkipsBatch(batch)
       THEN /\ pc' = next
            /\ UNCHANGED <<failedBy, exists, rows, stmts, connectorLoads>>
       ELSE /\ connectorLoads' = connectorLoads + 1
            /\ \E outcome \in {"load_fails", "execute_fails", "ok"} :
                  /\ outcome = "ok" => table \in exists
                  /\ stmts' = IF outcome = "load_fails" THEN stmts
                              ELSE Append(stmts, Stmt("insert", table, outcome = "ok", batch))
                  /\ rows' = IF outcome = "ok"
                             THEN [rows EXCEPT ![table] = @ \o batch]
                             ELSE rows
                  /\ IF outcome = "ok"
                     THEN pc' = next /\ failedBy' = failedBy
                     ELSE /\ pc' = AfterLoadError(next)
                          /\ failedBy' = IF pc' = "failed"
                                         THEN [task |-> task, why |-> outcome]
                                         ELSE failedBy
            /\ UNCHANGED exists
    /\ UNCHANGED i
    /\ UNCHANGED <<mlbVars, elevVars, transformVars>>

InsertGameScores ==
    InsertBatch("insert_game_scores", "GAME_SCORES", scores, "insert_game_locations")

InsertGameLocations ==
    InsertBatch("insert_game_locations", "GAME_LOCATIONS", locations, "completed")

----------------------------------------------------------------------------
(* get_mlb_data.py                                                         *)

\* the list returned as it is
NoDedupe(ids) == {ids}

\* list(set(all_game_ids)): the distinct ids, in any order
UniqueGameIds(ids) == Perms(Range(ids))

\* get_recent_games: one schedule per team, the ids as strings
GetRecentGames ==
    /\ pc = "get_recent_games"
    /\ \/ /\ \E sched \in [1..Len(team_ids) -> SeqsUpTo(GameIds, MaxGames)] :
                LET ids == Flatten([t \in 1..Len(team_ids) |->
                                      [k \in 1..Len(sched[t]) |-> Str(sched[t][k])]])
                IN /\ scheduled' = Range(ids)
                   /\ repeated' = (Len(ids) > Cardinality(Range(ids)))
                   /\ game_ids' \in UniqueGameIds(ids)
          /\ pc' = "get_game_scores"
          /\ failedBy' = failedBy
       \/ /\ team_ids # <<>>
          /\ Fails("get_recent_games", "schedule")
          /\ UNCHANGED <<scheduled, repeated, game_ids>>
    /\ i' = 1
    /\ UNCHANGED <<taskRuns, team_ids, scores, locations, cur, dispatches, noData>>
    /\ UNCHANGED <<warehouseVars, elevVars, transformVars>>

\* the task run that the next call of the body belongs to: the one under
\* way when a retry is pending, a new one otherwise
RunOf(task, id) ==
    IF cur.outcome = "retrying" THEN cur
    ELSE [task |-> task, id |-> id, attempts |-> 0, fails |-> 0, retries |-> 0,
          outcome |-> "running"]

\* retries counted as attempts
AttemptsLeft(run, retries) == run.attempts + 1 < retries

\* a task whose body raised is run again while it has retries left
RetriesLeft(run, retries) == run.retries < retries

\* the emptiness test of the loop left out
AppendsAlways(result) == TRUE

\* "if score_data:" / "if location_data:"
Appends(result) == ~IsEmptyDict(result)

\* One call of a fetch task's body for game_ids[i], with result what the body
\* returned (Raised when it raised), and the flow's loop body when the task
\* returns.
FetchStep(task, retries, result) ==
    LET id == game_ids[i]
        run == RunOf(task, id)
        ran == [run EXCEPT !.attempts = @ + 1]
    IN /\ dispatches' = IF cur.outcome = "retrying" THEN dispatches
                        ELSE [dispatches EXCEPT ![<<task, id>>] = @ + 1]
       /\ IF result = Raised
          THEN /\ UNCHANGED <<i, scores, locations, noData>>
               /\ IF RetriesLeft(run, retries)
                  THEN /\ cur' = [ran EXCEPT !.fails = @ + 1, !.retries = @ + 1,
                                             !.outcome = "retrying"]
                       /\ UNCHANGED <<pc, failedBy>>
                  ELSE /\ cur' = [ran EXCEPT !.fails = @ + 1, !.outcome = "failed"]
                       /\ Fails(task, "retries exhausted")
          ELSE /\ cur' = [ran EXCEPT !.outcome = IF IsEmptyDict(result) THEN "empty"
                                                 ELSE "record"]
               /\ noData' = IF IsEmptyDict(result) THEN noData \cup {<<task, id>>}
                            ELSE noData
               /\ IF task = "fetch_game_score"
                  THEN /\ scores' = IF Appends(result) THEN Append(scores, result)
                                    ELSE scores
                       /\ UNCHANGED locations
                  ELSE /\ locations' = IF Appends(result) THEN Append(locations, result)
                                       ELSE locations
                       /\ UNCHANGED scores
               /\ i' = i + 1
               /\ UNCHANGED <<pc, failedBy>>

\* get_game_scores' loop: fetch_game_score(game_id), where the API raises
\* or answers one of the responses
FetchGameScore ==
    /\ pc = "get_game_scores" /\ i <= Len(game_ids)
    /\ \E result \in {Raised} \cup {FetchGameScoreResult(game_ids[i], BuildBoxscore(sel)) :
                                       sel \in FlowScoreSels} :
          FetchStep("fetch_game_score", ScoreRetries, result)
    /\ UNCHANGED <<taskRuns, team_ids, scheduled, repeated, game_ids>>
    /\ UNCHANGED <<warehouseVars, elevVars, transformVars>>

\* get_game_scores returns its list
GetGameScoresReturns ==
    /\ pc = "get_game_scores" /\ i > Len(game_ids)
    /\ pc' = "get_game_locations_flow"
    /\ i' = 1
    /\ cur' = NoRun
    /\ UNCHANGED <<failedBy, taskRuns>>
    /\ UNCHANGED <<team_ids, scheduled, repeated, game_ids, scores, locations, dispatches, noData>>
    /\ UNCHANGED <<warehouseVars, elevVars, transformVars>>

\* get_game_locations_flow's loop: fetch_game_location(game_id)
FetchGameLocation ==
    /\ pc = "get_game_locations_flow" /\ i <= Len(game_ids)
    /\ \E result \in {Raised} \cup {FetchGameLocationResult(game_ids[i], BuildGame(sel)) :
                                       sel \in FlowLocationSels} :
          FetchStep("fetch_game_location", LocationRetries, result)
    /\ UNCHANGED <<taskRuns, team_ids, scheduled, repeated, game_ids>>
    /\ UNCHANGED <<warehouseVars, elevVars, transformVars>>

\* get_game_locations_flow returns its list
GetGameLocationsReturns ==
    /\ pc = "get_game_locations_flow" /\ i > Len(game_ids)
    /\ pc' = "insert_game_scores"
    /\ i' = 1
    /\ cur' = NoRun
    /\ UNCHANGED <<failedBy, taskRuns>>
    /\ UNCHANGED <<team_ids, scheduled, repeated, game_ids, scores, locations, dispatches, noData>>
    /\ UNCHANGED <<warehouseVars, elevVars, transformVars>>

----------------------------------------------------------------------------
(* get_elevation_data.py                                                   *)

MinNum(a, b) == IF a <= b THEN a ELSE b

\* what the elevation API may answer
ElevationValues == {PyFloat(100), PyFloat(890)}

\* SELECT DISTINCT venue_city, venue_latitude, venue_longitude: the distinct
\* triples in any order, at most FetchSize of them
DistinctCities(table) ==
    LET triples == {<<r.venue_city, r.venue_latitude, r.venue_longitude>> : r \in Range(table)}
    IN {SubSeq(q, 1, MinNum(Len(q), FetchSize)) : q \in Perms(triples)}

\* "for _, lat, long in locations: get_elevation(lat, long)"
ElevationArgs(location) == [latitude |-> location[2], longitude |-> location[3]]

\* the elevation put in front
PrependElevation(list, elevation) == <<elevation>> \o list

\* elevations.append(elevation)
AppendElevation(list, elevation) == Append(list, elevation)

\* zip(locations, elevation) as the parameters of the insert
ZipRows(locs, elevs) ==
    [k \in 1..MinNum(Len(locs), Len(elevs)) |->
        [city |-> locs[k][1], lat |-> locs[k][2], lon |-> locs[k][3],
         elevation |-> elevs[k]]]

GetCityData ==
    /\ pc = "get_city_data"
    /\ taskRuns' = [taskRuns EXCEPT !["get_city_data"] = @ + 1]
    /\ connectorLoads' = connectorLoads + 1
    /\ \E outcome \in {"load_fails", "query_fails", "lineage_fails", "ok"} :
          /\ outcome \in {"lineage_fails", "ok"} => "GAME_LOCATIONS" \in exists
          /\ stmts' = IF outcome = "load_fails" THEN stmts
                      ELSE Append(stmts, Stmt("select", "GAME_LOCATIONS",
                                              outcome # "query_fails", <<>>))
          /\ IF outcome = "ok"
             THEN /\ elocations' \in DistinctCities(rows["GAME_LOCATIONS"])
                  /\ pc' = "get_elevation"
                  /\ failedBy' = failedBy
             ELSE /\ Fails("get_city_data", outcome)
                  /\ UNCHANGED elocations
    /\ i' = 1
    /\ UNCHANGED <<exists, rows, elevations, lookups>>
    /\ UNCHANGED <<mlbVars, transformVars>>

GetElevation ==
    /\ pc = "get_elevation" /\ i <= Len(elocations)
    /\ taskRuns' = [taskRuns EXCEPT !["get_elevation"] = @ + 1]
    /\ \E outcome \in {"request_fails", "lineage_fails", "json_fails", "ok"},
          answer \in ElevationValues :
          LET args == ElevationArgs(elocations[i])
          IN /\ lookups' = IF outcome = "request_fails" THEN lookups
                           ELSE Append(lookups,
                                       [latitude |-> args.latitude,
                                        longitude |-> args.longitude,
                                        elevation |-> IF outcome = "json_fails"
                                                      THEN PyNone ELSE answer])
             /\ IF outcome = "ok"
                THEN /\ elevations' = AppendElevation(elevations, answer)
                     /\ i' = i + 1
                     /\ UNCHANGED <<pc, failedBy>>
                ELSE /\ Fails("get_elevation", outcome)
                     /\ UNCHANGED <<elevations, i>>
    /\ UNCHANGED <<elocations>>
    /\ UNCHANGED <<warehouseVars, mlbVars, transformVars>>

\* main_elevation's loop is over
ElevationLoopEnds ==
    /\ pc = "get_elevation" /\ i > Len(elocations)
    /\ pc' = "setup_table"
    /\ UNCHANGED <<failedBy, taskRuns, i>>
    /\ UNCHANGED <<warehouseVars, mlbVars, elevVars, transformVars>>

\* setup_table: create elevation_data, insert the zipped rows, emit lineage
SetupTable ==
    /\ pc = "setup_table"
    /\ taskRuns' = [taskRuns EXCEPT !["setup_table"] = @ + 1]
    /\ connectorLoads' = connectorLoads + 1
    /\ \E outcome \in {"load_fails", "create_fails", "insert_fails", "lineage_fails", "ok"} :
          LET params == ZipRows(elocations, elevations)
              inserted == outcome \in {"lineage_fails", "ok"}
          IN /\ stmts' = CASE outcome = "load_fails" -> stmts
                           [] outcome = "create_fails" ->
                                 Append(stmts, Stmt("create", "elevation_data", FALSE, <<>>))
                           [] OTHER ->
                                 stmts \o <<Stmt("create", "elevation_data", TRUE, <<>>),
                                            Stmt("insert", "elevation_data", inserted, params)>>
             /\ exists' = IF outcome \in {"load_fails", "create_fails"} THEN exists
                          ELSE exists \cup {"elevation_data"}
             /\ rows' = IF inserted
                        THEN [rows EXCEPT !["elevation_data"] = @ \o params]
                        ELSE rows
             /\ IF outcome = "ok"
                THEN pc' = "completed" /\ failedBy' = failedBy
                ELSE Fails("setup_table", outcome)
    /\ UNCHANGED i
    /\ UNCHANGED <<mlbVars, elevVars, transformVars>>

----------------------------------------------------------------------------
(* One fetch task applied to one raw payload                               *)

ApplyFetchGameScore ==
    /\ pc = "fetch_game_score"
    /\ tresult' = FetchGameScoreResult(tid, BuildBoxscore(tsel))
    /\ pc' = "returned"
    /\ UNCHANGED <<failedBy, taskRuns, i, tsel, tid>>
    /\ UNCHANGED <<warehouseVars, mlbVars, elevVars>>

ApplyFetchGameLocation ==
    /\ pc = "fetch_game_location"
    /\ tresult' = FetchGameLocationResult(tid, BuildGame(tsel))
    /\ pc' = "returned"
    /\ UNCHANGED <<failedBy, taskRuns, i, tsel, tid>>
    /\ UNCHANGED <<warehouseVars, mlbVars, elevVars>>

----------------------------------------------------------------------------

NextMlb ==
    \/ SetupTables
    \/ GetRecentGames
    \/ FetchGameScore
    \/ GetGameScoresReturns
    \/ FetchGameLocation
    \/ GetGameLocationsReturns
    \/ InsertGameScores
    \/ InsertGameLocations

NextElevation ==
    \/ GetCityData
    \/ GetElevation
    \/ ElevationLoopEnds
    \/ SetupTable

NextTransform ==
    \/ ApplyFetchGameScore
    \/ ApplyFetchGameLocation

\* one run of mlb_simple_flow
SpecMlb == InitMlb /\ [][NextMlb]_vars

\* one run of main_elevation
SpecElevation == InitElevation /\ [][NextElevation]_vars

\* one call of fetch_game_score or fetch_game_location on one payload
SpecTransform == InitTransform /\ [][NextTransform]_vars

InitRuns == InitMlb \/ InitElevation

NextRuns == NextMlb \/ NextElevation

\* one run of either flow
SpecRuns == InitRuns /\ [][NextRuns]_vars

----------------------------------------------------------------------------
(* Properties                                                              *)

Succeeded(run) == run.outcome \in {"record", "empty"}

ListOf(task) == IF task = "fetch_game_score" THEN scores ELSE locations

TableOf(task) == IF task = "fetch_game_score" THEN "GAME_SCORES" ELSE "GAME_LOCATIONS"

IdOf(id) == PyInt(ParseNat(id))

Last(list) == list[Len(list)]

PastFetching == pc \in {"insert_game_scores", "insert_game_locations", "completed"}

\* C1, as stated: a fetch that fails k < 5 times and then succeeds has
\* returned after k + 1 attempts, and no fetch is attempted more than 5
\* times, a fetch that always fails exactly 5 times.
C1_FiveAttempts ==
    cur.task \in FetchTasks =>
        /\ Succeeded(cur) /\ cur.fails < 5 => cur.attempts = cur.fails + 1
        /\ cur.attempts <= 5
        /\ cur.outcome = "failed" => cur.attempts = 5

\* C1, amended: a fetch that fails k <= 5 times and then succeeds has
\* returned its record after k + 1 attempts; no fetch is attempted more than
\* 6 times (the first call and the 5 retries), and a fetch that always fails
\* is attempted exactly 6 times.
C1_SixAttempts ==
    cur.task \in FetchTasks =>
        /\ cur.attempts <= 6
        /\ Succeeded(cur) => cur.attempts = cur.fails + 1 /\ cur.fails <= 5
        /\ cur.outcome = "record" =>
              /\ ListOf(cur.task) # <<>>
              /\ Last(ListOf(cur.task)).game_id = IdOf(cur.id)
        /\ cur.outcome = "retrying" => cur.attempts = cur.fails /\ cur.fails <= 5
        /\ cur.outcome = "failed" => cur.attempts = 6 /\ cur.fails = 6

\* a fetch has failed on every one of its attempts and is given up
C1_Witness ==
    /\ cur.task = "fetch_game_location"
    /\ cur.outcome = "failed"
    /\ cur.attempts = 6
    /\ Len(scores) >= 1

\* C2: a fetch that exhausts its retries does not end the run: the flow
\* never fails by a fetch task.
C2_SkipAndContinue == failedBy.task \notin FetchTasks

\* C3: no fetch task is called twice for a game id and no list holds two
\* records of a game id; game_ids holds each scheduled id once; once a loop
\* is over its task has been called exactly once per scheduled id.
C3_OnceEach ==
    /\ \A d \in FetchTasks \X GameIdStrs : dispatches[d] <= 1
    /\ \A task \in FetchTasks :
          \A a, b \in 1..Len(ListOf(task)) :
              a # b => ListOf(task)[a].game_id # ListOf(task)[b].game_id
    /\ Range(game_ids) = scheduled
    /\ Len(game_ids) = Cardinality(scheduled)
    /\ pc = "get_game_locations_flow" \/ PastFetching =>
          \A id \in GameIdStrs :
              dispatches[<<"fetch_game_score", id>>] = IF id \in scheduled THEN 1 ELSE 0
    /\ PastFetching =>
          \A id \in GameIdStrs :
              dispatches[<<"fetch_game_location", id>>] = IF id \in scheduled THEN 1 ELSE 0

\* the schedules repeated an id more than once and the run is over, with a
\* record of every id
C3_Witness ==
    /\ pc = "completed"
    /\ repeated
    /\ Cardinality(scheduled) >= 2
    /\ Len(scores) = Cardinality(scheduled)
    /\ Len(locations) = Cardinality(scheduled)

\* C4: an empty response is not retried, its result is not in the list, no
\* insert is given a row of that id, and the other ids are still fetched.
C4_EmptySkipped ==
    /\ cur.outcome = "empty" => cur.attempts = cur.fails + 1
    /\ \A task \in FetchTasks : \A k \in 1..Len(ListOf(task)) :
          /\ ~IsEmptyDict(ListOf(task)[k])
          /\ \A id \in GameIdStrs :
                <<task, id>> \in noData => ListOf(task)[k].game_id # IdOf(id)
    /\ \A k \in 1..Len(stmts) : \A task \in FetchTasks :
          stmts[k].op = "insert" /\ stmts[k].table = TableOf(task) =>
              \A r \in 1..Len(stmts[k].params) :
                  /\ ~IsEmptyDict(stmts[k].params[r])
                  /\ \A id \in GameIdStrs :
                        <<task, id>> \in noData => stmts[k].params[r].game_id # IdOf(id)
    /\ noData # {} /\ PastFetching =>
          \A task \in FetchTasks, id \in scheduled : dispatches[<<task, id>>] = 1

\* one id had an empty boxscore at its first attempt, the other a record,
\* and the record was inserted
C4_Witness ==
    /\ pc = "completed"
    /\ \E id \in GameIdStrs : <<"fetch_game_score", id>> \in noData
    /\ Len(scores) = 1
    /\ Len(game_ids) = 2
    /\ \E k \in 1..Len(stmts) :
          stmts[k].op = "insert" /\ stmts[k].table = "GAME_SCORES" /\ stmts[k].ok

InsertsInto(table) == {k \in 1..Len(stmts) : stmts[k].op = "insert" /\ stmts[k].table = table}

\* C5: when main_elevation reaches setup_table there is one elevation per
\* location, and the k-th row given to the insert into elevation_data has
\* the city, latitude and longitude of the k-th location and the elevation
\* the API answered to the k-th lookup, made for that latitude and longitude.
C5_RowsPairedByPosition ==
    /\ pc = "setup_table" => Len(elevations) = Len(elocations)
    /\ \A s \in InsertsInto("elevation_data") :
          LET params == stmts[s].params
          IN /\ Len(params) = Len(elocations)
             /\ Len(lookups) = Len(elocations)
             /\ \A k \in 1..Len(params) :
                   /\ params[k].city = elocations[k][1]
                   /\ params[k].lat = elocations[k][2]
                   /\ params[k].lon = elocations[k][3]
                   /\ params[k].elevation = lookups[k].elevation
                   /\ lookups[k].latitude = elocations[k][2]
                   /\ lookups[k].longitude = elocations[k][3]
             /\ stmts[s].ok => rows["elevation_data"] = params

\* two locations with different latitudes got different elevations, and
\* the rows are written
C5_Witness ==
    /\ pc = "completed"
    /\ Len(elocations) = 2
    /\ elocations[1][2] # elocations[2][2]
    /\ elevations[1] # elevations[2]
    /\ Len(rows["elevation_data"]) = 2

FailedStmts == {k \in 1..Len(stmts) : ~stmts[k].ok}

\* C6: a load task whose connector or statement fails ends the run as
\* failed; it has run once, the failed statement is the last one sent, and
\* no later step of mlb_simple_flow has run.
C6_LoadFailureIsFatal ==
    /\ \A tk \in LoadTasks : taskRuns[tk] <= 1
    /\ \A k \in FailedStmts : pc = "failed" /\ k = Len(stmts)
    /\ failedBy.task \in LoadTasks =>
          /\ pc = "failed"
          /\ taskRuns[failedBy.task] = 1
          /\ failedBy.task = "setup_tables" =>
                /\ game_ids = <<>> /\ scores = <<>> /\ locations = <<>>
                /\ taskRuns["insert_game_scores"] = 0
                /\ InsertsInto("GAME_SCORES") = {}
          /\ failedBy.task \in {"setup_tables", "insert_game_scores"} =>
                /\ taskRuns["insert_game_locations"] = 0
                /\ InsertsInto("GAME_LOCATIONS") = {}
    /\ pc = "completed" => FailedStmts = {} /\ failedBy = NoFailure

\* the insert of the scores failed, with locations waiting to be inserted
C6_Witness ==
    /\ pc = "failed"
    /\ failedBy = [task |-> "insert_game_scores", why |-> "execute_fails"]
    /\ FailedStmts # {}
    /\ locations # <<>>

\* C7: a lineage event that cannot be emitted does not fail the run: no
\* task of the elevation flow fails by emit_lineage_event.
C7_LineageBestEffort == failedBy.why # "lineage_fails"

\* C9: every insert sent to the warehouse comes after a successful
\* CREATE TABLE IF NOT EXISTS of its table in the same run, and
\* mlb_simple_flow reaches its inserts only with setup_tables completed.
C9_CreateBeforeInsert ==
    /\ \A k \in 1..Len(stmts) :
          stmts[k].op = "insert" =>
              /\ \E j \in 1..(k - 1) :
                    /\ stmts[j].op = "create"
                    /\ stmts[j].table = stmts[k].table
                    /\ stmts[j].ok
              /\ stmts[k].table \in exists
    /\ pc \in {"insert_game_scores", "insert_game_locations"} =>
          /\ taskRuns["setup_tables"] = 1
          /\ {"GAME_SCORES", "GAME_LOCATIONS"} \subseteq exists

\* both inserts of mlb_simple_flow were sent, in a warehouse that had no
\* table when the run began
C9_Witness ==
    /\ pc = "completed"
    /\ InsertsInto("GAME_SCORES") # {}
    /\ InsertsInto("GAME_LOCATIONS") # {}
    /\ Len(stmts) = 4

BatchOf(step) == IF step = "insert_game_scores" THEN scores ELSE locations

AfterInsert(step) == IF step = "insert_game_scores" THEN "insert_game_locations" ELSE "completed"

\* an insert task called with an empty list loads no connector, sends no
\* statement, changes no table and returns to the flow
EmptyBatchStep ==
    pc \in {"insert_game_scores", "insert_game_locations"} /\ BatchOf(pc) = <<>> =>
        /\ connectorLoads' = connectorLoads
        /\ stmts' = stmts
        /\ rows' = rows
        /\ exists' = exists
        /\ failedBy' = failedBy
        /\ taskRuns'[pc] = taskRuns[pc] + 1
        /\ pc' = AfterInsert(pc)

\* C10: insert_game_scores and insert_game_locations with an empty list load
\* no connector, send no statement, leave the warehouse as it is and return:
\* the flow is at its next step, not failed.
C10_EmptyBatchNoOp == [][EmptyBatchStep]_vars

\* both inserts were called with an empty list and the run completed, with
\* only setup_tables' two statements sent
C10_Witness ==
    /\ pc = "completed"
    /\ scores = <<>> /\ locations = <<>>
    /\ game_ids # <<>>
    /\ taskRuns["insert_game_scores"] = 1
    /\ taskRuns["insert_game_locations"] = 1
    /\ connectorLoads = 1
    /\ Len(stmts) = 2

\* what the raw values are as numbers (floats in tenths); the last raw value
\* of each list is no number
NumsAsInt == <<3, 12>>
IdsAsInt == <<0, 15, 22>>
FloatsAsTenths == <<50, 105, 105>>
LatsAsTenths == <<407, 340>>
TimesOfBoxInfos == <<Unknown, Unknown, PyStr(Chars3), Unknown, PyStr(Chars3), Unknown>>

IsScoreSel(sel) == "hr" \in DOMAIN sel

\* the payload has a key, and every numeric field it carries is a number
ScoreSelInScope(sel) ==
    /\ sel.hr.d > 0 \/ sel.ar.d > 0 \/ sel.ti.p = 1 \/ sel.box > 1
    /\ sel.hr.d = 4 => sel.hr.v <= Len(NumsAsInt)
    /\ sel.ar.d = 4 => sel.ar.v <= Len(NumsAsInt)
    /\ sel.ti.home.id <= Len(NumsAsInt)
    /\ sel.ti.away.id <= Len(NumsAsInt)

LocationSelInScope(sel) ==
    /\ sel.gd > 0
    /\ sel.venue.id <= Len(IdsAsInt)
    /\ sel.venue.loc.elev <= Len(FloatsAsTenths)

IntOr0(present, table, k) == IF present THEN PyInt(table[k]) ELSE PyInt(0)

FloatOr0(present, table, k) == IF present THEN PyFloat(table[k]) ELSE PyFloat(0)

TextOrUnknown(present, text) == IF present THEN text ELSE Unknown

ExpectedScore(id, sel) ==
    LET home == IntOr0(sel.hr.d = 4, NumsAsInt, sel.hr.v)
        away == IntOr0(sel.ar.d = 4, NumsAsInt, sel.ar.v)
    IN [game_id |-> IdOf(id),
        home_team_id |-> IntOr0(sel.ti.home.id > 0, NumsAsInt, sel.ti.home.id),
        home_team |-> TextOrUnknown(sel.ti.home.name = 1, NameMets),
        away_team_id |-> IntOr0(sel.ti.away.id > 0, NumsAsInt, sel.ti.away.id),
        away_team |-> TextOrUnknown(sel.ti.away.name = 1, NameCubs),
        home_score |-> home,
        away_score |-> away,
        score_differential |-> PyInt(IF home.n >= away.n THEN home.n - away.n
                                     ELSE away.n - home.n),
        game_time |-> TimesOfBoxInfos[sel.box]]

ExpectedLocation(id, sel) ==
    LET v == sel.venue
        l == v.loc
    IN [game_id |-> IdOf(id),
        venue_id |-> IntOr0(v.id > 0, IdsAsInt, v.id),
        venue_name |-> TextOrUnknown(v.name = 1, TextA),
        venue_city |-> TextOrUnknown(l.city = 1, TextA),
        venue_state |-> TextOrUnknown(l.state = 1, TextA),
        venue_postal_code |-> TextOrUnknown(l.postal = 1, TextA),
        venue_country |-> TextOrUnknown(l.country = 1, TextA),
        venue_latitude |-> FloatOr0(l.dc.lat > 0, LatsAsTenths, l.dc.lat),
        venue_longitude |-> IF l.dc.lon = 1 THEN RawLon ELSE PyFloat(0),
        venue_elevation |-> FloatOr0(l.elev > 0, FloatsAsTenths, l.elev)]

\* C8: on a payload that has a key, whatever optional fields it lacks,
\* fetch_game_score and fetch_game_location do not raise and return a record
\* with every column of the table: "Unknown", 0 or 0.0 where the field is
\* missing, the field's value (as an int or a float) where it is there.
C8_DefaultsForMissingFields ==
    pc = "returned" =>
        /\ IsScoreSel(tsel) /\ ScoreSelInScope(tsel) =>
              /\ tresult # Raised
              /\ DOMAIN tresult = ScoreColumns
              /\ tresult = ExpectedScore(tid, tsel)
        /\ ~IsScoreSel(tsel) /\ LocationSelInScope(tsel) =>
              /\ tresult # Raised
              /\ DOMAIN tresult = LocationColumns
              /\ tresult = ExpectedLocation(tid, tsel)

\* a boxscore with the home runs as a string of digits and no teamInfo
C8_Witness ==
    /\ pc = "returned"
    /\ IsScoreSel(tsel)
    /\ tsel.hr = [d |-> 4, v |-> 2]
    /\ tsel.ar.d = 2
    /\ tsel.ti.p = 0
    /\ tresult # Raised
    /\ tresult.home_score = PyInt(12)
    /\ tresult.away_score = PyInt(0)
    /\ tresult.home_team = Unknown

====
